---------------------------- MODULE Spec2Model ----------------------------
(***************************************************************************)
(* Model of final_TSLA.ipynb: the stationarity test, the stepwise order     *)
(* search, the walk-forward ARIMA(1,1,1) evaluation loop and the Kalman     *)
(* filter exercise.                                                         *)
(*                                                                          *)
(* Numbers.  The notebook computes in floating point.  The walk-forward     *)
(* part uses integer log-prices; np.exp is modelled as 2^x (positive,       *)
(* strictly increasing, not the identity) and a percentage error is kept    *)
(* as the exact fraction <<numerator, denominator>>.  The Kalman part and   *)
(* the mean error use exact rationals <<n, d>> with d > 0, kept in lowest   *)
(* terms.                                                                   *)
(*                                                                          *)
(* Library calls.  ARIMA(...).fit / forecast (statsmodels), adfuller        *)
(* (statsmodels), auto_arima (pyramid-arima) and KalmanFilter.filter        *)
(* (pykalman) are called by the notebook, not defined in it.  Each is       *)
(* modelled at its call site by what the call does; where the result is an  *)
(* opaque statistic it is a deterministic stand-in or a choice from a       *)
(* bounded set, as said at the definition.                                  *)
(***************************************************************************)
EXTENDS Integers, Sequences, FiniteSets, TLC

VARIABLES
    \* ---- the series
    ts_log,          \* np.log(ts): the log-prices
    \* ---- first differences (cells "take first differences", "test for stationarity")
    ts_log_diff,     \* the differenced series; each entry is a number or NaN
    diff_pc,         \* "start" | "differenced" | "dropped"
    \* ---- walk-forward evaluation (cell "Make predictions based on ARIMA(1,1,1)")
    train_arima,     \* training part of ts_log
    test_arima,      \* held-out part of ts_log
    history,         \* list the model is refitted on
    predictions,     \* list of float(np.exp(forecast))
    originals,       \* list of float(np.exp(true value))
    error_list,      \* list of percentage errors
    t,               \* loop variable: index of the next iteration to run
    wf_pc,           \* "unsplit" | "split" | "running" | "done" |
                     \* "aborted" (an exception left the cell)
    unstable,        \* the last differences on which ARIMA.fit raises
    mean_error,      \* outcome of the cell that prints the mean error
    test_alt,        \* a second test series, for the two-run comparison
    shadow,          \* the state of the run on test_alt
    \* ---- Kalman filter exercise (cells "kf = KalmanFilter(...)", "kf.filter(...)")
    kf,              \* the KalmanFilter instance: its constructor parameters
    observations,    \* the argument of the current call of kf.filter
    kf_prior,        \* the (mean, covariance) the current call starts from
    state_means,     \* filtered state means of the current call, so far
    state_covs,      \* filtered state covariances of the current call, so far
    kf_pc,           \* "idle" | "filtering" | "returned"
    kf_calls,        \* number of calls of kf.filter on the instance
    prev_obs,        \* argument of the previous call
    prev_means,      \* state means the previous call returned
    prev_covs,       \* state covariances the previous call returned
    \* ---- stationarity test (test_stationarity)
    adf_result,      \* what adfuller(x) returned in the last call
    verdict,         \* the verdict the last call printed
    adf_calls,       \* number of calls of test_stationarity
    \* ---- order search (auto_arima, stepwise)
    fit_aic,         \* outcome of fitting each order on ts_log
    evaluated,       \* orders fitted so far (results_dict)
    bestfit,         \* best order so far, NoOrder while none converged
    pos,             \* the order whose neighbours are tried next
    os_pc,           \* "idle" | "stepping" | "returned" | "failed"
    os_result        \* the order auto_arima returned

diff_vars == <<ts_log_diff, diff_pc>>

wf_vars == <<ts_log, train_arima, test_arima, history, predictions, originals,
             error_list, t, wf_pc, unstable, mean_error, test_alt,
             shadow>>

kf_vars == <<kf, observations, kf_prior, state_means, state_covs, kf_pc,
             kf_calls, prev_obs, prev_means, prev_covs>>

adf_vars == <<adf_result, verdict, adf_calls>>

os_vars == <<fit_aic, evaluated, bestfit, pos, os_pc, os_result>>

vars == <<wf_vars, kf_vars, adf_vars, os_vars, diff_vars>>

--------------------------------------------------------------------------
(* Bounds of the model *)

\* longest test series considered (the notebook holds out 14 observations)
MaxTest == 3

\* length of the training series considered
TrainLen == 2

\* log-prices the series are drawn from
LogVals == {2, 3}

\* sets of last differences on which the fit may be taken to fail
UnstableSets == {{}, {0}, {1}, {-1}}

\* longest observation sequence given to kf.filter
MaxObs == 3

\* calls of kf.filter on one instance
MaxCalls == 2

\* observed values
ObsVals == {1, 3}

\* KalmanFilter parameters considered, as rationals <<n, d>>
Mu0Vals == {<<0, 1>>, <<3, 1>>}
P0Vals == {<<0, 1>>, <<1, 1>>, <<4, 1>>}
QVals == {<<0, 1>>, <<1, 4>>}
RVals == {<<1, 1>>, <<2, 1>>}

\* calls of test_stationarity
MaxAdfCalls == 3

\* ADF statistics considered, in hundredths
StatVals == {-400, -343, -320, -286, -270, -200}

\* p-values considered, in thousandths
PVals == {1, 5, 10, 20, 30, 40, 50, 60, 80, 200, 300, 500}

\* critical-value tables considered (hundredths), in the order of the dict
CritTables ==
    {<<<<"1%", -343>>, <<"5%", -286>>, <<"10%", -257>>>>,
     <<<<"1%", -344>>, <<"5%", -287>>, <<"10%", -257>>>>}

\* longest series given to the differencing cells
MaxSeries == 3

\* log-prices the differenced series is drawn from
SeriesVals == {1, 2, 4}

\* largest p of the order search grid (max_p)
MaxP == 2

\* q values of the order search grid (0..max_q)
QRange == {0, 1}

\* information-criterion values a converged fit may have
AICVals == {1, 2}

SeqsOfLen(S, n) == [1..n -> S]

SeqsUpTo(S, n) == UNION {SeqsOfLen(S, k) : k \in 0..n}

Abs(x) == IF x < 0 THEN -x ELSE x

--------------------------------------------------------------------------
(* Stationarity test: test_stationarity(x) *)

\* adfuller's p-value is a decreasing function of its statistic; the
\* model ties the two at the asymptotic 1%, 5% and 10% points
PValueFits(stat, p) ==
    /\ p <= 10 <=> stat <= -343
    /\ p <= 50 <=> stat <= -286
    /\ p <= 100 <=> stat <= -257

\* result = adfuller(x): result[0] statistic, result[1] p-value,
\* result[4] critical values
AdfResults ==
    {r \in [stat : StatVals, pvalue : PVals, crit : CritTables] :
        PValueFits(r.stat, r.pvalue)}

\* for key,value in result[4].items(): if result[0]>value: "non
\* stationary"; break / else: "stationary"; break
\* Both branches break, so only the first critical value is compared.
PrintedVerdict(r) ==
    IF r.crit = <<>> THEN "none"
    ELSE IF r.stat > r.crit[1][2] THEN "NON_STATIONARY"
    ELSE "STATIONARY"

\* one call of test_stationarity
TestStationarity ==
    /\ adf_calls < MaxAdfCalls
    /\ \E r \in AdfResults :
          /\ adf_result' = r
          /\ verdict' = PrintedVerdict(r)
    /\ adf_calls' = adf_calls + 1
    /\ UNCHANGED <<wf_vars, kf_vars, os_vars, diff_vars>>

--------------------------------------------------------------------------
(* First differences: ts_log_diff = (ts_log - ts_log.shift())*100, then   *)
(* ts_log_diff.dropna(inplace=True).  An entry of a pandas series is a    *)
(* number or NaN.                                                         *)

NaN == [nan |-> TRUE, v |-> 0]

Num(x) == [nan |-> FALSE, v |-> x]

ShiftBack(x) == [i \in 1..Len(x) |-> IF i = Len(x) THEN NaN ELSE Num(x[i + 1])]

\* ts_log.shift(): periods defaults to 1; entry i is entry i-1 of the
\* series, the first entry is NaN
Shift(x) == [i \in 1..Len(x) |-> IF i = 1 THEN NaN ELSE Num(x[i - 1])]

\* a - b on entries: NaN when either is NaN
Minus(a, b) == IF a.nan \/ b.nan THEN NaN ELSE Num(a.v - b.v)

\* a * k on an entry
Times(a, k) == IF a.nan THEN NaN ELSE Num(a.v * k)

\* the factor of line 302: differences of logs are kept in percent
PercentScale == 100

\* (ts_log - ts_log.shift())*100; both series have the same index, so the
\* subtraction is entry by entry
Difference(x) ==
    [i \in 1..Len(x) |-> Times(Minus(Num(x[i]), Shift(x)[i]), PercentScale)]

NotNa(c) == ~c.nan

\* dropna: the entries that are not NaN, in order
DropNa(s) == SelectSeq(s, NotNa)

DiffInit ==
    /\ ts_log \in SeqsUpTo(SeriesVals, MaxSeries)
    /\ ts_log_diff = <<>>
    /\ diff_pc = "start"

\* cell "take first differences"
DiffCell ==
    /\ diff_pc = "start"
    /\ ts_log_diff' = Difference(ts_log)
    /\ diff_pc' = "differenced"
    /\ UNCHANGED <<wf_vars, kf_vars, adf_vars, os_vars>>

\* cell "test for stationarity": dropna in place, then
\* test_stationarity(ts_log_diff), which prints its verdict
DropNaCell ==
    /\ diff_pc = "differenced"
    /\ ts_log_diff' = DropNa(ts_log_diff)
    /\ diff_pc' = "dropped"
    /\ \E r \in AdfResults :
          /\ adf_result' = r
          /\ verdict' = PrintedVerdict(r)
    /\ adf_calls' = adf_calls + 1
    /\ UNCHANGED <<wf_vars, kf_vars, os_vars>>

DiffNext == DiffCell \/ DropNaCell

--------------------------------------------------------------------------
(* Order search: auto_arima(ts_log, start_p=0, start_q=0, max_p=20,       *)
(* max_q=10, seasonal=False, error_action='ignore', stepwise=True).       *)
(* d is fixed before the search and is the same for every candidate, so   *)
(* a candidate is <<p, q>>.  The stepwise search fits the starting        *)
(* orders, then repeatedly fits a not yet fitted neighbour of the current *)
(* order and moves to it when it is better; the order in which the        *)
(* neighbours are tried is left open.                                     *)

Grid == (0..MaxP) \X QRange

\* max_order of auto_arima: an order with p + q above it is not fitted.
\* The call leaves it at its default, below max_p + max_q.
MaxOrder == MaxP

NoOrder == <<-1, -1>>

Outcomes ==
    {[ok |-> FALSE, aic |-> 0]} \cup {[ok |-> TRUE, aic |-> a] : a \in AICVals}

\* start_p=0, start_q=0
StartOrder == <<0, 0>>

\* the starting orders, in the order they are fitted: (start_p, start_q),
\* the null model, a basic AR model, a basic MA model
StartOrders == <<StartOrder, <<0, 0>>, <<1, 0>>, <<0, 1>>>>

Fittable(c) == c \in Grid /\ c[1] + c[2] <= MaxOrder

Neighbours(c) ==
    {<<c[1] - 1, c[2]>>, <<c[1] + 1, c[2]>>, <<c[1], c[2] - 1>>,
     <<c[1], c[2] + 1>>, <<c[1] - 1, c[2] - 1>>, <<c[1] + 1, c[2] + 1>>}

\* is_new_better: no best fit yet, or the new fit converged with a smaller
\* criterion
IsNewBetter(st, c) ==
    \/ st.bestfit = NoOrder
    \/ fit_aic[c].ok /\ fit_aic[c].aic < fit_aic[st.bestfit].aic

FitAbortsSearch(st, c) ==
    IF c \in st.evaluated
    THEN st
    ELSE [evaluated |-> st.evaluated \cup {c},
          bestfit |-> st.bestfit,
          pos |-> st.pos,
          halted |-> st.halted \/ ~fit_aic[c].ok]

\* fit one order and cache it; with error_action='ignore' a fit that
\* raises is cached as None and the search goes on
FitAndCache(st, c) ==
    IF c \in st.evaluated
    THEN st
    ELSE [evaluated |-> st.evaluated \cup {c},
          bestfit |-> IF ~IsNewBetter(st, c) THEN st.bestfit
                      ELSE IF fit_aic[c].ok THEN c ELSE NoOrder,
          pos |-> IF IsNewBetter(st, c) THEN c ELSE st.pos,
          halted |-> st.halted]

RECURSIVE FitAll(_, _)
FitAll(st, cs) ==
    IF cs = <<>> \/ st.halted THEN st
    ELSE FitAll(IF Fittable(Head(cs)) THEN FitAndCache(st, Head(cs)) ELSE st,
                Tail(cs))

ViableAlways(c) == TRUE

\* the fits kept for the final ranking: those that are not None
Viable(c) == fit_aic[c].ok

Ranked == {c \in evaluated : Viable(c)}

BestUnsorted == Ranked

\* the orders of smallest criterion among the ranked ones: the ranking
\* sorts the fits on the criterion alone, and which of several fits of
\* equal criterion comes first is left open
Best == {c \in Ranked : \A e \in Ranked : fit_aic[c].aic <= fit_aic[e].aic}

OSState == [evaluated |-> evaluated, bestfit |-> bestfit, pos |-> pos,
            halted |-> os_pc = "failed"]

SetOSState(st) ==
    /\ evaluated' = st.evaluated
    /\ bestfit' = st.bestfit
    /\ pos' = st.pos
    /\ os_pc' = IF st.halted THEN "failed" ELSE "stepping"

ToTry == {c \in Neighbours(pos) : Fittable(c) /\ c \notin evaluated}

OSInit ==
    /\ fit_aic \in [Grid -> Outcomes]
    /\ evaluated = {}
    /\ bestfit = NoOrder
    /\ pos = StartOrder
    /\ os_pc = "idle"
    /\ os_result = NoOrder

\* auto_arima is called: the starting orders are fitted
OSStart ==
    /\ os_pc = "idle"
    /\ SetOSState(FitAll(OSState, StartOrders))
    /\ UNCHANGED <<fit_aic, os_result, wf_vars, kf_vars, adf_vars,
                   diff_vars>>

\* one more neighbour of the current order is fitted
OSStepNeighbour ==
    /\ os_pc = "stepping"
    /\ \E c \in ToTry : SetOSState(FitAndCache(OSState, c))
    /\ UNCHANGED <<fit_aic, os_result, wf_vars, kf_vars, adf_vars,
                   diff_vars>>

\* no neighbour is left to fit: the best ranked order is returned
OSReturn ==
    /\ os_pc = "stepping"
    /\ ToTry = {}
    /\ Ranked # {}
    /\ os_result' \in Best
    /\ os_pc' = "returned"
    /\ UNCHANGED <<fit_aic, evaluated, bestfit, pos, wf_vars, kf_vars, adf_vars,
                   diff_vars>>

\* no neighbour is left to fit and no fit is ranked: auto_arima raises
\* ValueError
OSFail ==
    /\ os_pc = "stepping"
    /\ ToTry = {}
    /\ Ranked = {}
    /\ os_pc' = "failed"
    /\ UNCHANGED <<fit_aic, evaluated, bestfit, pos, os_result, wf_vars, kf_vars,
                   adf_vars, diff_vars>>

OSNext == OSStart \/ OSStepNeighbour \/ OSReturn \/ OSFail

--------------------------------------------------------------------------
(* Exact rational arithmetic: <<n, d>> with d > 0, in lowest terms *)

RECURSIVE GCD(_, _)
GCD(a, b) == IF b = 0 THEN a ELSE GCD(b, a % b)

Rat(n, d) ==
    LET g == GCD(Abs(n), Abs(d))
        sgn == IF d < 0 THEN -1 ELSE 1
    IN  <<sgn * (n \div g), sgn * (d \div g)>>

RAdd(x, y) ==
    LET g == GCD(x[2], y[2])
    IN  Rat(x[1] * (y[2] \div g) + y[1] * (x[2] \div g), (x[2] \div g) * y[2])

RNeg(x) == <<-x[1], x[2]>>

RSub(x, y) == RAdd(x, RNeg(y))

RMul(x, y) ==
    LET g1 == GCD(Abs(x[1]), y[2])
        g2 == GCD(Abs(y[1]), x[2])
    IN  Rat((x[1] \div g1) * (y[1] \div g2), (x[2] \div g2) * (y[2] \div g1))

\* x / y for y # 0
RDiv(x, y) == RMul(x, Rat(y[2], y[1]))

RLeq(x, y) ==
    LET g == GCD(x[2], y[2])
    IN  x[1] * (y[2] \div g) <= y[1] * (x[2] \div g)

RAbs(x) == <<Abs(x[1]), x[2]>>

RInt(n) == <<n, 1>>

--------------------------------------------------------------------------
(* Walk-forward loop *)

\* np.exp, on the integer log-prices of the model
Exp(x) == 2 ^ x

LastDiff(h) == h[Len(h)] - h[Len(h) - 1]

\* model.fit(disp=0): raises (LinAlgError / ValueError) or returns.  The
\* outcome is a function of the fitted data alone; the model takes it to
\* depend on the last difference of the data.  With d = 1 a series of fewer
\* than two values has no difference to fit on, and the fit raises.
FitConverges(h, bad) == Len(h) >= 2 /\ LastDiff(h) \notin bad

\* model_fit.forecast()[0]: the one-step-ahead forecast, a function of the
\* fitted data alone.  Stand-in for ARIMA(1,1,1): the last value plus the
\* last difference.
Forecast(h) == h[Len(h)] + LastDiff(h)

\* error = ((abs(pred_value - original_value)) / original_value) * 100
PctError(pred, orig) == <<Abs(pred - orig) * 100, orig>>

FitInputLookahead(h, test, i) == Append(h, test[i + 1])

\* ARIMA(history, order=(1, 1, 1)): the data iteration i (0-based) fits on
FitInput(h, test, i) == h

RevealFront(h, x) == <<x>> \o h

\* history.append(original_value)
Reveal(h, x) == Append(h, x)

DropOriginal(seq, x) == seq

\* originals.append(float(original_value))
RecordOriginal(seq, x) == Append(seq, x)

\* One iteration of the for loop whose fit returned (lines 467-489)
IterationOK(run, test) ==
    LET i == run.t
        pred_value == Exp(Forecast(FitInput(run.history, test, i)))
        original_value == Exp(test[i + 1])
    IN  [history     |-> Reveal(run.history, test[i + 1]),
         predictions |-> Append(run.predictions, pred_value),
         originals   |-> RecordOriginal(run.originals, original_value),
         error_list  |-> Append(run.error_list, PctError(pred_value, original_value)),
         t           |-> i + 1,
         pc          |-> "running"]

SkipAndContinue(run, test) ==
    [run EXCEPT !.history = Reveal(run.history, test[run.t + 1]),
                !.t = run.t + 1]

RevealThenAbort(run, test) ==
    [run EXCEPT !.history = Reveal(run.history, test[run.t + 1]),
                !.pc = "aborted"]

\* model.fit raised at line 468: nothing catches it, the cell stops there and
\* lines 470-489 of this iteration are not executed
OnFitFailure(run, test) == [run EXCEPT !.pc = "aborted"]

Converges(run, test, bad) == FitConverges(FitInput(run.history, test, run.t), bad)

Iteration(run, test, bad) ==
    IF Converges(run, test, bad) THEN IterationOK(run, test)
                                 ELSE OnFitFailure(run, test)

\* history = [x for x in train_arima]; predictions = list(); ...
StartRun(train) ==
    [history |-> train, predictions |-> <<>>, originals |-> <<>>,
     error_list |-> <<>>, t |-> 0, pc |-> "running"]

Cur == [history |-> history, predictions |-> predictions, originals |-> originals,
        error_list |-> error_list, t |-> t, pc |-> wf_pc]

SetRun(r) ==
    /\ history' = r.history
    /\ predictions' = r.predictions
    /\ originals' = r.originals
    /\ error_list' = r.error_list
    /\ t' = r.t
    /\ wf_pc' = r.pc

\* sum(error_list): starts from the int 0
RECURSIVE Sum(_)
Sum(errs) ==
    IF errs = <<>> THEN RInt(0)
    ELSE RAdd(Sum(SubSeq(errs, 1, Len(errs) - 1)),
              Rat(errs[Len(errs)][1], errs[Len(errs)][2]))

NotComputed == [computed |-> FALSE, raised |-> "", value |-> RInt(0)]

DivideQuiet(x, n) ==
    [computed |-> TRUE, raised |-> "",
     value |-> IF n = 0 THEN RInt(0) ELSE RDiv(x, RInt(n))]

\* x / float(n): Python's division raises ZeroDivisionError when the
\* divisor is 0.0
Divide(x, n) ==
    IF n = 0
    THEN [computed |-> TRUE, raised |-> "ZeroDivisionError", value |-> RInt(0)]
    ELSE [computed |-> TRUE, raised |-> "", value |-> RDiv(x, RInt(n))]

\* sum(error_list)/float(len(error_list))
MeanError(errs) == Divide(Sum(errs), Len(errs))

WFInputsUnchanged ==
    UNCHANGED <<ts_log, train_arima, test_arima, unstable, test_alt, kf_vars,
                adf_vars, os_vars, diff_vars>>

WFInit ==
    /\ train_arima \in SeqsOfLen(LogVals, TrainLen)
    /\ test_arima \in SeqsUpTo(LogVals, MaxTest)
    /\ unstable \in UnstableSets
    /\ history = train_arima
    /\ predictions = <<>>
    /\ originals = <<>>
    /\ error_list = <<>>
    /\ t = 0
    /\ wf_pc = "running"
    /\ mean_error = NotComputed
    /\ test_alt = test_arima
    /\ shadow = StartRun(train_arima)
    /\ ts_log = train_arima \o test_arima

\* an iteration whose fit returns
WFStep ==
    /\ wf_pc = "running"
    /\ t < Len(test_arima)
    /\ Converges(Cur, test_arima, unstable)
    /\ SetRun(IterationOK(Cur, test_arima))
    /\ WFInputsUnchanged
    /\ UNCHANGED <<shadow, mean_error>>

\* an iteration whose fit raises
WFAbort ==
    /\ wf_pc = "running"
    /\ t < Len(test_arima)
    /\ ~Converges(Cur, test_arima, unstable)
    /\ SetRun(OnFitFailure(Cur, test_arima))
    /\ WFInputsUnchanged
    /\ UNCHANGED <<shadow, mean_error>>

\* range(len(test_arima)) is exhausted
WFFinish ==
    /\ wf_pc = "running"
    /\ t = Len(test_arima)
    /\ wf_pc' = "done"
    /\ UNCHANGED <<history, predictions, originals, error_list, t, shadow,
                   mean_error>>
    /\ WFInputsUnchanged

\* the next cell, run after the loop has gone over the entire test set:
\* prints the mean of error_list
WFMeanError ==
    /\ wf_pc = "done"
    /\ ~mean_error.computed
    /\ mean_error' = MeanError(error_list)
    /\ UNCHANGED <<history, predictions, originals, error_list, t, wf_pc, shadow>>
    /\ WFInputsUnchanged

WFNext == WFStep \/ WFAbort \/ WFFinish \/ WFMeanError

--------------------------------------------------------------------------
(* Train/test split: size = int(len(ts_log)-14);                          *)
(* train_arima, test_arima = ts_log[0:size], ts_log[size:len(ts_log)]     *)

\* the number of observations held out (line 448)
HoldOut == 14

\* a slice bound of Python on a sequence of length n: a negative bound
\* counts from the end, and the result is clamped to 0..n
SliceBound(i, n) ==
    IF i < 0 THEN (IF i + n < 0 THEN 0 ELSE i + n)
    ELSE IF i > n THEN n ELSE i

\* s[a:b], positions counted from 0
Slice(s, a, b) ==
    SubSeq(s, SliceBound(a, Len(s)) + 1, SliceBound(b, Len(s)))

SplitSizeShort(s) == Len(s) - HoldOut + 1

\* size = int(len(ts_log)-14)
SplitSize(s) == Len(s) - HoldOut

\* ts_log[0:size]
TrainPart(s) == Slice(s, 0, SplitSize(s))

\* ts_log[size:len(ts_log)]
TestPart(s) == Slice(s, SplitSize(s), Len(s))

\* the series a + (i-1) b of length n
Ramp(a, b, n) == [i \in 1..n |-> a + (i - 1) * b]

\* the series the split is run on: constant and rising, up to the length
\* that leaves a training part of TrainLen values
SplitSeries ==
    {Ramp(a, b, n) : a \in LogVals, b \in {0, 1}, n \in 0..(HoldOut + TrainLen)}

SplitInit ==
    /\ ts_log \in SplitSeries
    /\ unstable \in UnstableSets
    /\ train_arima = <<>>
    /\ test_arima = <<>>
    /\ history = <<>>
    /\ predictions = <<>>
    /\ originals = <<>>
    /\ error_list = <<>>
    /\ t = 0
    /\ wf_pc = "unsplit"
    /\ mean_error = NotComputed
    /\ test_alt = <<>>
    /\ shadow = StartRun(<<>>)

\* cell "Divide data into train and test"
SplitCell ==
    /\ wf_pc = "unsplit"
    /\ train_arima' = TrainPart(ts_log)
    /\ test_arima' = TestPart(ts_log)
    /\ wf_pc' = "split"
    /\ UNCHANGED <<ts_log, history, predictions, originals, error_list, t,
                   unstable, mean_error, test_alt, shadow, kf_vars, adf_vars,
                   os_vars, diff_vars>>

\* the first lines of the loop cell: history = [x for x in train_arima] and
\* the three empty lists
WFBegin ==
    /\ wf_pc = "split"
    /\ SetRun(StartRun(train_arima))
    /\ WFInputsUnchanged
    /\ UNCHANGED <<shadow, mean_error>>

SplitNext == SplitCell \/ WFBegin \/ WFStep \/ WFAbort \/ WFFinish \/ WFMeanError

--------------------------------------------------------------------------
(* Two runs of the loop on the same training series *)

PairInit ==
    /\ WFInit!1
    /\ WFInit!2
    /\ WFInit!3
    /\ history = train_arima
    /\ predictions = <<>>
    /\ originals = <<>>
    /\ error_list = <<>>
    /\ t = 0
    /\ wf_pc = "running"
    /\ mean_error = NotComputed
    /\ test_alt \in SeqsOfLen(LogVals, Len(test_arima))
    /\ shadow = StartRun(train_arima)
    /\ ts_log = train_arima \o test_arima

\* the run on test_arima does its next iteration
PairMain ==
    /\ wf_pc = "running"
    /\ t < Len(test_arima)
    /\ shadow.t >= t \/ shadow.pc # "running"
    /\ SetRun(Iteration(Cur, test_arima, unstable))
    /\ WFInputsUnchanged
    /\ UNCHANGED <<shadow, mean_error>>

\* the run on test_alt does its next iteration
PairShadow ==
    /\ shadow.pc = "running"
    /\ shadow.t < Len(test_alt)
    /\ shadow.t < t \/ wf_pc # "running"
    /\ shadow' = Iteration(shadow, test_alt, unstable)
    /\ WFInputsUnchanged
    /\ UNCHANGED <<history, predictions, originals, error_list, t, wf_pc,
                   mean_error>>

PairNext == PairMain \/ PairShadow

--------------------------------------------------------------------------
(* Kalman filter: kf = KalmanFilter(...); kf.filter(observations) *)

\* transition_matrices = [1]
TransitionMatrix == 1

\* observation_matrices = [1]
ObservationMatrix == 1

F == RInt(TransitionMatrix)

H == RInt(ObservationMatrix)

\* predict: mean = F mean, covariance = F P F + Q
FilterPredict(Q, st) ==
    [mean |-> RMul(F, st.mean),
     cov  |-> RAdd(RMul(RMul(F, st.cov), F), Q)]

GainWithoutPrior(pcov, R) == RDiv(RMul(pcov, H), R)

\* gain K = P_pred H / (H P_pred H + R), 0 where the innovation variance is 0
KalmanGain(pcov, R) ==
    LET S == RAdd(RMul(RMul(H, pcov), H), R)
    IN  IF S[1] = 0 THEN RInt(0) ELSE RDiv(RMul(pcov, H), S)

CorrectedCovSwapped(K, pcov) == RSub(RMul(RMul(K, H), pcov), pcov)

\* corrected covariance P = P_pred - K H P_pred
CorrectedCov(K, pcov) == RSub(pcov, RMul(RMul(K, H), pcov))

\* update with observation z
FilterCorrect(R, pred, z) ==
    LET K == KalmanGain(pred.cov, R)
    IN  [mean |-> RAdd(pred.mean, RMul(K, RSub(RInt(z), RMul(H, pred.mean)))),
         cov  |-> CorrectedCov(K, pred.cov)]

StartStateCarried(inst, means, covs) ==
    IF means = <<>>
    THEN [mean |-> inst.initial_state_mean, cov |-> inst.initial_state_covariance]
    ELSE [mean |-> means[Len(means)], cov |-> covs[Len(covs)]]

\* the state a call of filter starts from: the constructor's
\* initial_state_mean and initial_state_covariance; means and covs are what
\* the previous call on the instance returned
StartState(inst, means, covs) ==
    [mean |-> inst.initial_state_mean, cov |-> inst.initial_state_covariance]

PredictAlways(i) ==
    FilterPredict(kf.transition_covariance,
                  IF i = 0 THEN kf_prior
                  ELSE [mean |-> state_means[i], cov |-> state_covs[i]])

\* the predicted state for observation i (0-based): the starting state for
\* the first observation, a predict step from the last filtered state after
PredictedState(i) ==
    IF i = 0
    THEN kf_prior
    ELSE FilterPredict(kf.transition_covariance,
                       [mean |-> state_means[i], cov |-> state_covs[i]])

KFInit ==
    /\ kf \in [initial_state_mean : Mu0Vals, initial_state_covariance : P0Vals,
               transition_covariance : QVals, observation_covariance : RVals]
    /\ observations = <<>>
    /\ kf_prior = [mean |-> kf.initial_state_mean, cov |-> kf.initial_state_covariance]
    /\ state_means = <<>>
    /\ state_covs = <<>>
    /\ kf_pc = "idle"
    /\ kf_calls = 0
    /\ prev_obs = <<>>
    /\ prev_means = <<>>
    /\ prev_covs = <<>>

\* kf.filter(obs) is called
KFCall ==
    /\ kf_pc \in {"idle", "returned"}
    /\ kf_calls < MaxCalls
    /\ \E obs \in SeqsUpTo(ObsVals, MaxObs) : observations' = obs
    /\ kf_prior' = StartState(kf, state_means, state_covs)
    /\ prev_obs' = observations
    /\ prev_means' = state_means
    /\ prev_covs' = state_covs
    /\ state_means' = <<>>
    /\ state_covs' = <<>>
    /\ kf_pc' = "filtering"
    /\ kf_calls' = kf_calls + 1
    /\ UNCHANGED <<kf, wf_vars, adf_vars, os_vars, diff_vars>>

\* one observation is processed
KFStep ==
    /\ kf_pc = "filtering"
    /\ Len(state_means) < Len(observations)
    /\ LET i == Len(state_means)
           st == FilterCorrect(kf.observation_covariance, PredictedState(i),
                               observations[i + 1])
       IN  /\ state_means' = Append(state_means, st.mean)
           /\ state_covs' = Append(state_covs, st.cov)
    /\ UNCHANGED <<kf, observations, kf_prior, kf_pc, kf_calls, prev_obs,
                   prev_means, prev_covs, wf_vars, adf_vars, os_vars,
                   diff_vars>>

\* filter returns (filtered_state_means, filtered_state_covariances)
KFReturn ==
    /\ kf_pc = "filtering"
    /\ Len(state_means) = Len(observations)
    /\ kf_pc' = "returned"
    /\ UNCHANGED <<kf, observations, kf_prior, state_means, state_covs, kf_calls,
                   prev_obs, prev_means, prev_covs, wf_vars, adf_vars, os_vars,
                   diff_vars>>

KFNext == KFCall \/ KFStep \/ KFReturn

--------------------------------------------------------------------------
(* Specifications: each runs one part of the notebook, the others idle *)

WFIdle ==
    /\ train_arima = <<>>
    /\ test_arima = <<>>
    /\ history = <<>>
    /\ predictions = <<>>
    /\ originals = <<>>
    /\ error_list = <<>>
    /\ t = 0
    /\ wf_pc = "done"
    /\ unstable = {}
    /\ mean_error = NotComputed
    /\ test_alt = <<>>
    /\ shadow = StartRun(<<>>)

KFIdle ==
    /\ kf = [initial_state_mean |-> RInt(0), initial_state_covariance |-> RInt(1),
             transition_covariance |-> RInt(0), observation_covariance |-> RInt(1)]
    /\ observations = <<>>
    /\ kf_prior = [mean |-> RInt(0), cov |-> RInt(1)]
    /\ state_means = <<>>
    /\ state_covs = <<>>
    /\ kf_pc = "idle"
    /\ kf_calls = 0
    /\ prev_obs = <<>>
    /\ prev_means = <<>>
    /\ prev_covs = <<>>

NoSeries == ts_log = <<>>

DiffIdle ==
    /\ ts_log_diff = <<>>
    /\ diff_pc = "start"

ADFIdle ==
    /\ adf_result = [stat |-> 0, pvalue |-> 0, crit |-> <<>>]
    /\ verdict = "none"
    /\ adf_calls = 0

OSIdle ==
    /\ fit_aic = [c \in {} |-> 0]
    /\ evaluated = {}
    /\ bestfit = NoOrder
    /\ pos = StartOrder
    /\ os_pc = "idle"
    /\ os_result = NoOrder

InitWF == WFInit /\ KFIdle /\ ADFIdle /\ OSIdle /\ DiffIdle

SpecWF == InitWF /\ [][WFNext]_vars

InitPair == PairInit /\ KFIdle /\ ADFIdle /\ OSIdle /\ DiffIdle

SpecPair == InitPair /\ [][PairNext]_vars

InitKF == KFInit /\ NoSeries /\ WFIdle /\ ADFIdle /\ OSIdle /\ DiffIdle

SpecKF == InitKF /\ [][KFNext]_vars

InitADF == ADFIdle /\ NoSeries /\ WFIdle /\ KFIdle /\ OSIdle /\ DiffIdle

SpecADF == InitADF /\ [][TestStationarity]_vars

InitDiff == DiffInit /\ WFIdle /\ KFIdle /\ ADFIdle /\ OSIdle

SpecDiff == InitDiff /\ [][DiffNext]_vars

InitSplit == SplitInit /\ KFIdle /\ ADFIdle /\ OSIdle /\ DiffIdle

SpecSplit == InitSplit /\ [][SplitNext]_vars

InitOS == OSInit /\ NoSeries /\ WFIdle /\ KFIdle /\ ADFIdle /\ DiffIdle

SpecOS == InitOS /\ [][OSNext]_vars

--------------------------------------------------------------------------
(* Properties of the stationarity test *)

\* C6: the verdict is a function of the p-value alone: STATIONARY iff
\* p <= 0.05, NON_STATIONARY otherwise, whatever the statistic and the
\* critical values are.
C6_VerdictFromPValue ==
    adf_calls > 0 =>
        /\ verdict \in {"STATIONARY", "NON_STATIONARY"}
        /\ verdict = "STATIONARY" <=> adf_result.pvalue <= 50

--------------------------------------------------------------------------
(* Properties of the first differences *)

\* the inverse of a lag-1 difference: the running sum of the first i
\* differences added to the anchor
RECURSIVE RunningSum(_, _, _)
RunningSum(anchor, d, i) ==
    IF i = 0 THEN anchor ELSE RunningSum(anchor, d, i - 1) + d[i]

DiffValues == [i \in 1..Len(ts_log_diff) |-> ts_log_diff[i].v]

Unscaled == [i \in 1..Len(ts_log_diff) |-> ts_log_diff[i].v \div PercentScale]

\* C13 as stated (lag 1, the lag of the program): the difference of a
\* series of length n has length n-1, entry i is x[i+1] - x[i], and the
\* running sum of the differences added to the first value gives back
\* x[1..n-1].
C13_DifferenceRoundTrip ==
    (diff_pc = "dropped" /\ Len(ts_log) >= 1) =>
        /\ Len(ts_log_diff) = Len(ts_log) - 1
        /\ \A i \in 1..Len(ts_log_diff) :
              /\ ~ts_log_diff[i].nan
              /\ ts_log_diff[i].v = ts_log[i + 1] - ts_log[i]
              /\ RunningSum(ts_log[1], DiffValues, i) = ts_log[i + 1]

\* C13 as amended: the program differences at lag 1 only and keeps the
\* differences in percent.  Before dropna the series has length n with NaN
\* as its first entry; after it, it has length n-1, entry i is
\* 100 * (x[i+1] - x[i]), and the running sum of the differences divided
\* by 100, added to the first value, gives back x[1..n-1].
C13_PercentDifferenceRoundTrip ==
    /\ (diff_pc = "differenced" /\ Len(ts_log) >= 1) =>
          /\ Len(ts_log_diff) = Len(ts_log)
          /\ ts_log_diff[1].nan
    /\ (diff_pc = "dropped" /\ Len(ts_log) >= 1) =>
          /\ Len(ts_log_diff) = Len(ts_log) - 1
          /\ \A i \in 1..Len(ts_log_diff) :
                /\ ~ts_log_diff[i].nan
                /\ ts_log_diff[i].v = PercentScale * (ts_log[i + 1] - ts_log[i])
                /\ RunningSum(ts_log[1], Unscaled, i) = ts_log[i + 1]

\* a series of three values with two different non-zero differences has
\* been differenced and its NaN dropped
C13_Witness ==
    /\ diff_pc = "dropped"
    /\ Len(ts_log) = 3
    /\ Len(ts_log_diff) = 2
    /\ ts_log_diff[1].v # 0
    /\ ts_log_diff[2].v # 0
    /\ ts_log_diff[1].v # ts_log_diff[2].v

--------------------------------------------------------------------------
(* Properties of the order search *)

SearchOver == os_pc \in {"returned", "failed"}

\* C10 as stated: the search returns an order whenever at least one
\* candidate in range converges, and fails iff every candidate in range
\* fails.
C10_FailsIffAllInRangeFail ==
    SearchOver =>
        (os_pc = "failed" <=> \A c \in Grid : ~fit_aic[c].ok)

\* C10 as amended: a fitted candidate whose fit fails is skipped, is never
\* selected and never ends the search (the starting orders are all fitted
\* and the walk goes on until no neighbour is left to fit); the search
\* returns an order whenever at least one candidate it fitted converges,
\* and fails iff every candidate it fitted fails.
C10_FailsIffAllFittedFail ==
    /\ os_pc = "returned" => os_result \in evaluated /\ fit_aic[os_result].ok
    /\ SearchOver =>
          /\ \A i \in 1..Len(StartOrders) :
                Fittable(StartOrders[i]) => StartOrders[i] \in evaluated
          /\ ToTry = {}
          /\ os_pc = "failed" <=> \A c \in evaluated : ~fit_aic[c].ok

\* the starting order failed to fit, the search went on and returned an
\* order that converged
C10_Witness ==
    /\ os_pc = "returned"
    /\ ~fit_aic[StartOrder].ok
    /\ StartOrder \in evaluated
    /\ fit_aic[os_result].ok
    /\ Cardinality(evaluated) > Len(StartOrders) - 1

\* p + q of an order
ParamCount(c) == c[1] + c[2]

TiedWithResult ==
    {c \in evaluated : fit_aic[c].ok /\ fit_aic[c].aic = fit_aic[os_result].aic}

\* C11 as stated: the returned order has a criterion not greater than that
\* of any other fitted candidate, and among the candidates tied with it on
\* the criterion it has the smallest p + q (d is the same for every
\* candidate of one search).
C11_MinimumWithTieBreak ==
    os_pc = "returned" =>
        /\ \A c \in evaluated :
              fit_aic[c].ok => fit_aic[os_result].aic <= fit_aic[c].aic
        /\ \A c \in TiedWithResult : ParamCount(os_result) <= ParamCount(c)

\* C11 as amended: the returned order is a fitted candidate within the
\* bounds whose fit converged and whose criterion is not greater than that
\* of any other fitted candidate; no statement is made on which of several
\* candidates tied on the criterion is returned.
C11_MinimumAmongFitted ==
    os_pc = "returned" =>
        /\ os_result \in evaluated
        /\ Fittable(os_result)
        /\ fit_aic[os_result].ok
        /\ \A c \in evaluated :
              fit_aic[c].ok => fit_aic[os_result].aic <= fit_aic[c].aic

\* the search returned an order other than the starting one, and a fitted
\* candidate that converged has a strictly larger criterion
C11_Witness ==
    /\ os_pc = "returned"
    /\ os_result # StartOrder
    /\ \E c \in evaluated :
          fit_aic[c].ok /\ fit_aic[os_result].aic < fit_aic[c].aic

--------------------------------------------------------------------------
(* Properties of the walk-forward loop *)

\* what history must be when iteration k (0-based) fits its model
HistoryAt(k) == train_arima \o SubSeq(test_arima, 1, k)

\* the two test series agree on the entries of index < k (0-based)
AgreeBefore(k) == \A j \in 1..k : test_arima[j] = test_alt[j]

\* the iterations (0-based) whose fit raises if the loop gets to them
FailingSteps ==
    {k \in 0..(Len(test_arima) - 1) : ~FitConverges(HistoryAt(k), unstable)}

IsFirstFailure(f) ==
    /\ f \in FailingSteps
    /\ \A g \in FailingSteps : f <= g

\* C1: no lookahead.  Two runs on the same training series whose test
\* series agree on the entries of index < k produce the same forecast at
\* step k, whatever the entries of index >= k are; and if the fit of step k
\* raises in one run it raises in the other.
C1_NoLookahead ==
    /\ \A i \in 1..Len(predictions) :
          (i <= Len(shadow.predictions) /\ AgreeBefore(i - 1))
              => predictions[i] = shadow.predictions[i]
    /\ (wf_pc = "aborted" /\ AgreeBefore(t)) => shadow.t <= t
    /\ (shadow.pc = "aborted" /\ AgreeBefore(shadow.t)) => t <= shadow.t

\* both runs have forecast step 1, and the test series agree on entry 0
\* only: they differ on entry 1, which is revealed after that forecast
C1_Witness ==
    /\ Len(predictions) >= 2
    /\ Len(shadow.predictions) >= 2
    /\ test_arima[1] = test_alt[1]
    /\ test_arima[2] # test_alt[2]
    /\ predictions[2] = shadow.predictions[2]

\* C2: history invariant.  Whenever iteration t fits its model, history is
\* the training series followed by test_arima[0..t-1] in order; and history
\* changes only by one element appended at its end.
C2_HistoryInvariant ==
    /\ [](history = HistoryAt(t))
    /\ [][history' # history =>
            /\ Len(history') = Len(history) + 1
            /\ SubSeq(history', 1, Len(history)) = history]_vars

\* two true values have been revealed and a third iteration is about to fit
C2_Witness ==
    /\ wf_pc = "running"
    /\ t = 2
    /\ t < Len(test_arima)
    /\ history = train_arima \o <<test_arima[1], test_arima[2]>>

\* C3: in a run where no fit raised, after the iteration of index k the
\* three lists have length k+1 and entry i holds the values of step i; when
\* the loop is over each list has length len(test_arima).
C3_OneStepPerIndex ==
    wf_pc # "aborted" =>
        /\ Len(predictions) = t
        /\ Len(originals) = t
        /\ Len(error_list) = t
        /\ \A i \in 1..t :
              /\ originals[i] = Exp(test_arima[i])
              /\ predictions[i] = Exp(Forecast(HistoryAt(i - 1)))
              /\ error_list[i] = PctError(predictions[i], originals[i])
        /\ wf_pc = "done" => t = Len(test_arima)

\* the loop ran to its end over a test series of at least two entries
C3_Witness ==
    /\ wf_pc = "done"
    /\ Len(test_arima) >= 2
    /\ Len(originals) = Len(test_arima)

\* C4 as stated: test_arima[t] is appended to history also when the fit of
\* step t raised.
C4_RevealedRegardless ==
    wf_pc = "aborted" => history = HistoryAt(t + 1)

\* C4 as amended: test_arima[t] is appended to history exactly when the fit
\* and forecast of step t succeeded; when the fit of step t raises, the loop
\* stops with history = train + test_arima[0..t-1], without test_arima[t].
C4_RevealedOnlyAfterFit ==
    /\ Len(history) = Len(train_arima) + Len(predictions)
    /\ wf_pc = "aborted" =>
          /\ t < Len(test_arima)
          /\ Len(history) = Len(train_arima) + t
          /\ history = HistoryAt(t)

\* the fit of step 1 raised after step 0 had revealed its true value
C4_Witness ==
    /\ wf_pc = "aborted"
    /\ t = 1
    /\ history = Append(train_arima, test_arima[1])

\* C5: abort on the first failure.  If f is the first step whose fit
\* raises, no step of index > f runs, the loop never completes, and once it
\* has stopped exactly the steps 0..f-1 exist, with the values they were
\* given when they were produced.
C5_AbortOnFirstFailure ==
    /\ \A f \in 0..(Len(test_arima) - 1) :
          IsFirstFailure(f) =>
              /\ t <= f
              /\ wf_pc # "done"
              /\ wf_pc = "aborted" =>
                    /\ t = f
                    /\ Len(predictions) = f
                    /\ Len(originals) = f
                    /\ Len(error_list) = f
                    /\ \A i \in 1..f :
                          /\ predictions[i] = Exp(Forecast(HistoryAt(i - 1)))
                          /\ originals[i] = Exp(test_arima[i])
    /\ wf_pc = "aborted" => t \in FailingSteps

\* the loop stopped at step 1 of a test series with a later step
C5_Witness ==
    /\ wf_pc = "aborted"
    /\ t >= 1
    /\ t + 1 < Len(test_arima)
    /\ Len(predictions) = t

IsPrefix(s, w) == Len(s) <= Len(w) /\ s = SubSeq(w, 1, Len(s))

\* C15: for a series of at least 14 values the split gives a test part of
\* exactly 14 entries and a training part of the n-14 entries before them:
\* training part followed by test part is the whole series in order, entry
\* by entry, so no observation is in both and every training observation
\* precedes every test observation.  The history of the walk-forward loop
\* is a prefix of the series at every step and, when the loop has run to
\* its end, is the whole series.
C15_SplitPartitionsSeries ==
    (wf_pc # "unsplit" /\ Len(ts_log) >= HoldOut) =>
        /\ Len(test_arima) = HoldOut
        /\ Len(train_arima) = Len(ts_log) - HoldOut
        /\ train_arima \o test_arima = ts_log
        /\ \A i \in 1..Len(train_arima) : train_arima[i] = ts_log[i]
        /\ \A j \in 1..Len(test_arima) :
              test_arima[j] = ts_log[Len(train_arima) + j]
        /\ wf_pc # "split" => IsPrefix(history, ts_log)
        /\ wf_pc = "done" => history = ts_log

\* a rising series of 16 values was split and the loop ran to its end
C15_Witness ==
    /\ wf_pc = "done"
    /\ Len(ts_log) = HoldOut + 2
    /\ ts_log[1] # ts_log[2]
    /\ Len(train_arima) = 2
    /\ Len(test_arima) = HoldOut
    /\ history = ts_log

--------------------------------------------------------------------------
(* Properties of the Kalman filter *)

InitialState == [mean |-> kf.initial_state_mean, cov |-> kf.initial_state_covariance]

\* the state before observation i (1-based) of the current call is processed
StateBefore(i) ==
    IF i = 1 THEN kf_prior
             ELSE [mean |-> state_means[i - 1], cov |-> state_covs[i - 1]]

ConstantStream ==
    /\ Len(observations) >= 1
    /\ \A i \in 1..Len(observations) : observations[i] = observations[1]

\* m - c for the constant c of a constant stream
Offset(m) == RSub(m, RInt(observations[1]))

Sgn(x) == IF x[1] > 0 THEN 1 ELSE IF x[1] < 0 THEN -1 ELSE 0

\* C7: with F = H = 1, Q >= 0, R > 0 and P0 >= 0, the covariance of every
\* state of the trajectory is >= 0, for every observation sequence.
C7_VarianceNonNegative ==
    \A i \in 1..Len(state_covs) :
        /\ state_covs[i][2] > 0
        /\ state_covs[i][1] >= 0

\* three observations filtered with Q > 0 from P0 > 0
C7_Witness ==
    /\ Len(state_covs) = 3
    /\ kf.transition_covariance[1] > 0
    /\ kf.initial_state_covariance[1] > 0
    /\ state_covs[3][1] > 0

\* C8: on a constant stream c with Q = 0, from one step to the next the
\* distance |mean - c| does not increase, the mean does not cross c, and
\* the covariance does not increase.
C8_MonotoneOnConstantStream ==
    (kf.transition_covariance = RInt(0) /\ ConstantStream) =>
        \A i \in 1..Len(state_means) :
            /\ RLeq(RAbs(Offset(state_means[i])), RAbs(Offset(StateBefore(i).mean)))
            /\ Sgn(Offset(state_means[i])) * Sgn(Offset(StateBefore(i).mean)) >= 0
            /\ RLeq(state_covs[i], StateBefore(i).cov)

\* three equal observations filtered with Q = 0 from a mean off c: the mean
\* has come strictly closer to c between the first and the third
C8_Witness ==
    /\ kf.transition_covariance = RInt(0)
    /\ ConstantStream
    /\ Len(observations) = 3
    /\ Len(state_means) = 3
    /\ kf.initial_state_covariance[1] > 0
    /\ Sgn(Offset(kf_prior.mean)) # 0
    /\ ~RLeq(RAbs(Offset(state_means[1])), RAbs(Offset(state_means[3])))

\* predict with F = 1: the mean is kept, the covariance grows by Q
Predicted(st) ==
    [mean |-> st.mean, cov |-> RAdd(st.cov, kf.transition_covariance)]

\* update with H = 1: K = P_pred / (P_pred + R), mean + K (z - mean),
\* (1 - K) P_pred
Updated(pred, z) ==
    LET K == RDiv(pred.cov, RAdd(pred.cov, kf.observation_covariance))
    IN  [mean |-> RAdd(pred.mean, RMul(K, RSub(RInt(z), pred.mean))),
         cov  |-> RMul(RSub(RInt(1), K), pred.cov)]

StateAt(i) == [mean |-> state_means[i], cov |-> state_covs[i]]

\* one state per observation processed, in input order
OneStatePerObservation ==
    /\ Len(state_means) = Len(state_covs)
    /\ Len(state_means) <= Len(observations)
    /\ kf_pc = "returned" => Len(state_means) = Len(observations)

\* a step of a call appends one state and leaves the earlier ones as they
\* are
AppendsOneState ==
    (kf_pc = "filtering" /\ state_means' # state_means) =>
        /\ Len(state_means') = Len(state_means) + 1
        /\ Len(state_covs') = Len(state_covs) + 1
        /\ SubSeq(state_means', 1, Len(state_means)) = state_means
        /\ SubSeq(state_covs', 1, Len(state_covs)) = state_covs

\* C14 as stated: every observation, the first one included, is processed
\* by a predict step followed by an update step from the state before it;
\* one state per observation, in input order.
C14_PredictBeforeEveryUpdate ==
    /\ OneStatePerObservation
    /\ \A i \in 1..Len(state_means) :
          StateAt(i) = Updated(Predicted(StateBefore(i)), observations[i])

\* C14 as amended: the first observation is processed by an update step
\* alone, with (initial_state_mean, initial_state_covariance) as the
\* predicted state; every later observation by a predict step from the
\* state before it followed by an update step.  One state per observation,
\* in input order, each step appending one state.
C14_NoPredictBeforeFirstUpdate ==
    /\ [](/\ OneStatePerObservation
          /\ \A i \in 1..Len(state_means) :
                StateAt(i) =
                    IF i = 1
                    THEN Updated(InitialState, observations[1])
                    ELSE Updated(Predicted(StateAt(i - 1)), observations[i]))
    /\ [][AppendsOneState]_vars

\* a call on three observations has returned, with Q > 0 and P0 > 0
C14_Witness ==
    /\ kf_pc = "returned"
    /\ Len(observations) = 3
    /\ Len(state_means) = 3
    /\ kf.transition_covariance[1] > 0
    /\ kf.initial_state_covariance[1] > 0
    /\ observations[1] # observations[2]

\* C9 as stated: a second call of filter on the instance starts from the
\* state the previous call left behind.
C9_StartsFromLeftState ==
    (kf_calls >= 2 /\ prev_means # <<>>) =>
        kf_prior = [mean |-> prev_means[Len(prev_means)],
                    cov  |-> prev_covs[Len(prev_covs)]]

\* C9 as amended: filter does not change the instance.  Every call starts
\* from (initial_state_mean, initial_state_covariance), and a call with the
\* observations of the previous call returns the trajectory it returned.
C9_EveryCallStartsAfresh ==
    /\ kf_calls >= 1 => kf_prior = InitialState
    /\ (kf_calls >= 2 /\ kf_pc = "returned" /\ observations = prev_obs) =>
          /\ state_means = prev_means
          /\ state_covs = prev_covs

\* a second call with the same two or more observations has returned, and
\* the first call had moved the state away from the initial one
C9_Witness ==
    /\ kf_calls = 2
    /\ kf_pc = "returned"
    /\ observations = prev_obs
    /\ Len(observations) >= 2
    /\ state_means = prev_means
    /\ prev_means[Len(prev_means)] # kf.initial_state_mean
    /\ prev_covs[Len(prev_covs)] # kf.initial_state_covariance

==========================================================================
